---- MODULE Spec2Model ----
(***************************************************************************)
(* ProTimer UI (packages/app/ui/src/main.ts): the time-display             *)
(* reconciliation core.  The client holds the last Status it fetched, the  *)
(* optimistic overrides (localManualMode), the frozen display values       *)
(* (frozenTimes), the last rendered values (lastRenderedTimes) and the     *)
(* DOM it wrote.  The backend (Tauri commands get_status, start_tracking,  *)
(* stop_tracking) is the environment; commands and status responses are    *)
(* in flight between the two and complete in any order.                    *)
(*                                                                         *)
(* Times are milliseconds.  Maps of the source are functions whose DOMAIN  *)
(* is the set of keys present.  A nullable value is a sequence of length   *)
(* 0 (null / undefined) or 1.                                              *)
(***************************************************************************)
EXTENDS Integers, Sequences, FiniteSets, TLC

VARIABLES
    now,                \* Date.now()
    backend,            \* the backend's tracking state (environment)
    fetches,            \* get_status responses in flight (fetchData / rebuildProjects)
    commands,           \* start_tracking / stop_tracking invocations in flight
    promiseAll,         \* the Promise.all of each idle resolution
    currentStatus,      \* <<>> (null) or <<Status>>
    knownProjectIds,
    localManualMode,
    frozenTimes,
    lastRenderedTimes,
    lastFetchTime,
    lastRenderSecond,
    lastProjectStates,
    cards,              \* DOM: the project cards in #projects-container
    header,             \* DOM: #header-week / #header-today
    displayed,          \* history: the times renderTimers last wrote into each card
    appError,           \* DOM: #app has been replaced by "Failed to load ProTimer"
    idleDialog,         \* idleDialogOpen and the idle dialogs in document.body
    isAppRunning,
    fetchDataIntervalId,    \* <<>> (null) or << handle of the 5 s interval >>
    checkIdleIntervalId,    \* <<>> (null) or << handle of the 10 s interval >>
    rafId,              \* <<>> (null) or << handle of an animation frame request >>
    framePending,       \* a requestAnimationFrame(renderTimers) callback is pending
    events              \* how many user and environment events have happened

vars == << now, backend, fetches, commands, promiseAll, currentStatus,
           knownProjectIds, localManualMode, frozenTimes, lastRenderedTimes,
           lastFetchTime, lastRenderSecond, lastProjectStates, cards, header,
           displayed, appError, idleDialog, isAppRunning, fetchDataIntervalId,
           checkIdleIntervalId, rafId, framePending, events >>

envVars    == << now, backend >>
flightVars == << fetches, commands, promiseAll >>
storeVars  == << localManualMode, frozenTimes, lastRenderedTimes >>
viewVars   == << lastProjectStates, cards, header, displayed, appError >>
loopVars   == << isAppRunning, fetchDataIntervalId, checkIdleIntervalId, rafId, framePending >>

----------------------------------------------------------------------------
(* Bounds of the model *)

MaxTicks == 2          \* the clock runs from 0 to MaxTicks * TickMs
MaxEvents == 2         \* user and environment events: toggles, dialogs, notifications

(* Program constants *)

IDLE_THRESHOLD_MS == 5 * 60 * 1000
TOLERANCE_MS == 1000
SECOND_MS == 1000

\* The clock advances in steps of half the catch-up tolerance, so that
\* differences on both sides of the tolerance and of a wall-clock second occur.
TickMs == TOLERANCE_MS \div 2

ProjectIds == {"p1", "p2"}

\* Time tracked earlier in the week, before today: weekTime - todayTime.
EarlierThisWeek == 2 * TickMs

IdleTimes == {0, IDLE_THRESHOLD_MS - 1, IDLE_THRESHOLD_MS}

\* How long a manual session found open at load has been open.
OpenSince == 2 * TickMs

----------------------------------------------------------------------------
(* Map helpers *)

Has(m, k) == k \in DOMAIN m
MapSet(m, k, v) == [q \in (DOMAIN m) \cup {k} |-> IF q = k THEN v ELSE m[q]]
MapDelete(m, k) == [q \in (DOMAIN m) \ {k} |-> m[q]]
EmptyMap == [q \in {} |-> 0]

Abs(x) == IF x < 0 THEN -x ELSE x
Max(a, b) == IF a >= b THEN a ELSE b

RECURSIVE SumOver(_, _)
SumOver(f, S) ==
    IF S = {} THEN 0
    ELSE LET k == CHOOSE k \in S : TRUE IN f[k] + SumOver(f, S \ {k})

----------------------------------------------------------------------------
(* The backend: get_status, start_tracking, stop_tracking *)

BackendTracking(b, id) == b.manual[id] \/ b.claude[id] = "active"

\* One ProjectSnapshot of get_status.
ProjectSnapshot(b, id, t) ==
    [ isTracking  |-> BackendTracking(b, id),
      manualMode  |-> b.manual[id],
      claudeState |-> b.claude[id],
      elapsedTime |-> IF BackendTracking(b, id) THEN t - b.start[id] ELSE 0,
      weekTime    |-> b.week[id],
      todayTime   |-> b.week[id] - EarlierThisWeek ]

\* The system idle duration at time t: the time since the last user input; b.idle
\* is <<>> while the user is at the machine, or << the time of the last input >>.
systemIdleTime(b, t) == IF b.idle = <<>> THEN 0 ELSE t - b.idle[1]

\* get_status at time t.  asOf records the version of the backend's state that
\* the snapshot shows (the number of changes applied to it so far).
fetchStatus(b, t) ==
    [ projects       |-> [id \in b.projects |-> ProjectSnapshot(b, id, t)],
      systemIdleTime |-> systemIdleTime(b, t),
      asOf           |-> b.version ]

\* start_tracking { projectId, manualMode: true }
BackendStart(b, id, t) ==
    IF id \notin b.projects \/ b.manual[id] THEN b
    ELSE [b EXCEPT !.manual[id] = TRUE,
                   !.start[id] = IF BackendTracking(b, id) THEN @ ELSE t,
                   !.version = @ + 1]

\* stop_tracking { projectId, endTime }: the manual session ends at endTime when
\* one is given, and the open session is added to the totals once nothing tracks.
BackendStop(b, id, endTime, t) ==
    IF id \notin b.projects \/ ~b.manual[id] THEN b
    ELSE IF b.claude[id] = "active"
         THEN [b EXCEPT !.manual[id] = FALSE, !.version = @ + 1]
    ELSE LET end == IF endTime = <<>> THEN t ELSE endTime[1]
         IN  [b EXCEPT !.manual[id] = FALSE,
                       !.week[id] = @ + Max(0, end - b.start[id]),
                       !.start[id] = 0,
                       !.version = @ + 1]

\* create_project: the project appears in get_status, with what is on record
\* for its directory.
BackendCreate(b, id) ==
    IF id \in b.projects THEN b
    ELSE [b EXCEPT !.projects = @ \cup {id}, !.version = @ + 1]

\* delete_project { projectId }: the project and its open session are gone.
BackendDelete(b, id) ==
    IF id \notin b.projects THEN b
    ELSE [b EXCEPT !.projects = @ \ {id},
                   !.manual[id] = FALSE,
                   !.claude[id] = "stopped",
                   !.start[id] = 0,
                   !.version = @ + 1]

----------------------------------------------------------------------------
(* The client's pure parts *)

HasStatus == currentStatus # <<>>
Status == currentStatus[1]
StatusIds == IF HasStatus THEN DOMAIN Status.projects ELSE {}

\* localManualMode.get(id)?.active ?? false
isActive(local, id) == Has(local, id) /\ local[id].active

\* fetchData: "Override backend state with local manual mode state".
Overridden(p, local) ==
    [p EXCEPT !.manualMode = local.active,
              !.isTracking = local.active \/ p.claudeState = "active"]

\* A catch-up test that also accepts a difference of exactly the tolerance;
\* the tolerance of fetchData is strict.
backendCaughtUpInclusive(p, frozen) == Abs(p.weekTime - frozen.weekTime) <= TOLERANCE_MS

\* fetchData: backendCaughtUp
backendCaughtUp(p, frozen) == Abs(p.weekTime - frozen.weekTime) < TOLERANCE_MS

\* A cleanup condition that tests the flags as the backend reported them and
\* not the override; fetchData tests !local.active first.
cleanupConditionReported(p, local) == ~p.manualMode /\ ~p.isTracking

\* fetchData: the cleanup condition, tested on the project after the override
\* has been written into it.
cleanupCondition(p, local) ==
    LET q == Overridden(p, local)
    IN  ~local.active /\ ~q.manualMode /\ ~q.isTracking

\* fetchData: does this fetch delete the override of id (and its freeze, if any)?
cleanupOverride(st, local, frozen, id) ==
    /\ Has(st.projects, id)
    /\ Has(local, id)
    /\ cleanupCondition(st.projects[id], local[id])
    /\ (Has(frozen, id) => backendCaughtUp(st.projects[id], frozen[id]))

\* A toggle that leaves the visible flags to the next fetch; the handlers write
\* them at once.
toggledProjectDeferred(p, wasActive) == p

\* The toggle handlers: "Update UI immediately from local state".
toggledProject(p, wasActive) ==
    [p EXCEPT !.manualMode = ~wasActive,
              !.isTracking = ~wasActive \/ p.claudeState = "active"]

\* The Stop All handler: "Update UI immediately from local state".
idleStoppedProject(p) ==
    [p EXCEPT !.manualMode = FALSE,
              !.isTracking = (p.claudeState = "active")]

\* An extraTime that counts down from the start of the override; renderTimers
\* counts up from it.
extraTimeReversed(p, local, id, t, fetchTime) ==
    IF isActive(local, id) THEN local[id].startTime - t
    ELSE IF p.isTracking /\ p.elapsedTime > 0 THEN p.elapsedTime + (t - fetchTime)
    ELSE 0

\* An extraTime that adds the backend's elapsedTime under an active override
\* too; renderTimers uses the override alone.
extraTimeWithElapsed(p, local, id, t, fetchTime) ==
    IF isActive(local, id) THEN p.elapsedTime + (t - local[id].startTime)
    ELSE IF p.isTracking /\ p.elapsedTime > 0 THEN p.elapsedTime + (t - fetchTime)
    ELSE 0

\* An extraTime that does not extrapolate the backend's elapsedTime from the
\* time of the fetch; renderTimers adds now - lastFetchTime.
extraTimeNotExtrapolated(p, local, id, t, fetchTime) ==
    IF isActive(local, id) THEN t - local[id].startTime
    ELSE IF p.isTracking /\ p.elapsedTime > 0 THEN p.elapsedTime
    ELSE 0

\* renderTimers: extraTime of a project that has no freeze.
extraTime(p, local, id, t, fetchTime) ==
    IF isActive(local, id) THEN t - local[id].startTime
    ELSE IF p.isTracking /\ p.elapsedTime > 0 THEN p.elapsedTime + (t - fetchTime)
    ELSE 0

\* A projection that does not look at the freeze; renderTimers returns the
\* frozen pair when there is one.
renderedTimesIgnoringFreeze(p, local, frozen, id, t, fetchTime) ==
    LET extra == extraTime(p, local, id, t, fetchTime)
    IN  [weekTime |-> p.weekTime + extra, todayTime |-> p.todayTime + extra]

\* renderTimers: the {weekTime, todayTime} of one project.
renderedTimes(p, local, frozen, id, t, fetchTime) ==
    IF Has(frozen, id)
    THEN [weekTime |-> frozen[id].weekTime, todayTime |-> frozen[id].todayTime]
    ELSE LET extra == extraTime(p, local, id, t, fetchTime)
         IN  [weekTime |-> p.weekTime + extra, todayTime |-> p.todayTime + extra]

\* formatDuration(ms) with showSeconds = true: <<hours, minutes, seconds>> are the
\* numbers printed; a leading zero part is left out of the text.
formatDuration(ms) ==
    LET seconds == ms \div 1000
        minutes == seconds \div 60
        hours   == minutes \div 60
    IN  IF hours > 0 THEN << hours, "h", minutes % 60, "m", seconds % 60, "s" >>
        ELSE IF minutes > 0 THEN << minutes, "m", seconds % 60, "s" >>
        ELSE << seconds, "s" >>

\* updateProjectCard: the state key of the shallow comparison.
stateKey(p) == << p.isTracking, p.manualMode, p.claudeState >>

statusIcons(p) ==
    (IF p.claudeState = "active" THEN {"claude-active"} ELSE {})
    \cup (IF p.isTracking /\ p.manualMode THEN {"manual-mode"} ELSE {})

\* updateProjectCard applied to the projects ps (id -> Project) against the cards cs
\* in the document; the times of a card are left to renderTimers.
updatedStates(lps, ps) ==
    [id \in (DOMAIN lps) \cup (DOMAIN ps) |->
        IF Has(ps, id) THEN stateKey(ps[id]) ELSE lps[id]]

updatedCards(lps, cs, ps) ==
    [id \in DOMAIN cs |->
        IF Has(ps, id) /\ ~(Has(lps, id) /\ lps[id] = stateKey(ps[id]))
        THEN [cs[id] EXCEPT !.tracking = ps[id].isTracking,
                            !.icons = statusIcons(ps[id]),
                            !.btnStop = ps[id].manualMode]
        ELSE cs[id]]

\* createProjectCard: the card as its template renders it.  Its closing
\* updateProjectCard(p) runs before the card is in the document.
createProjectCard(p) ==
    [ week     |-> p.weekTime,
      today    |-> p.todayTime,
      tracking |-> p.isTracking,
      icons    |-> {},
      btnStop  |-> p.manualMode ]

\* In-flight invocations.  Each is a promise of its own: seq tells apart the
\* invocations of different handler runs.
StartCommand(id) ==
    [op |-> "start", id |-> id, endTime |-> <<>>, then |-> "none", batch |-> 0,
     seq |-> events]
\* A stop of a toggle with no then(); the handlers chain fetchData to it.
StopCommandNoRefresh(id) ==
    [op |-> "stop", id |-> id, endTime |-> <<>>, then |-> "none", batch |-> 0,
     seq |-> events]
StopCommand(id) ==
    [op |-> "stop", id |-> id, endTime |-> <<>>, then |-> "fetch", batch |-> 0,
     seq |-> events]
IdleStopCommand(id, endTime, n) ==
    [op |-> "stop", id |-> id, endTime |-> endTime, then |-> "all", batch |-> n,
     seq |-> events]

FetchResponse(kind) == [kind |-> kind, status |-> fetchStatus(backend, now)]

----------------------------------------------------------------------------
(* Initial state: module initialisation has run.  rebuildProjects() is in     *)
(* flight, the intervals and the first animation frame are scheduled.  The    *)
(* backend outlives the window: the projects in manualIds have a manual       *)
(* session that was opened OpenSince ms before the window loaded.             *)

InitBackend(ids, manualIds) ==
    [ projects |-> ids,
      manual   |-> [id \in ProjectIds |-> id \in manualIds],
      claude   |-> [id \in ProjectIds |-> "stopped"],
      start    |-> [id \in ProjectIds |-> IF id \in manualIds THEN 0 - OpenSince ELSE 0],
      week     |-> [id \in ProjectIds |-> EarlierThisWeek],
      idle     |-> <<>>,
      version  |-> 0 ]

\* The client once the module has been evaluated, against the backend b.
InitFrom(b) ==
    /\ now = 0
    /\ backend = b
    /\ fetches = {[kind |-> "rebuild", status |-> fetchStatus(b, 0)]}
    /\ commands = {}
    /\ promiseAll = EmptyMap
    /\ currentStatus = <<>>
    /\ knownProjectIds = {}
    /\ localManualMode = EmptyMap
    /\ frozenTimes = EmptyMap
    /\ lastRenderedTimes = EmptyMap
    /\ lastFetchTime = 0
    /\ lastRenderSecond = -1
    /\ lastProjectStates = EmptyMap
    /\ cards = EmptyMap
    /\ header = [week |-> 0, today |-> 0]
    /\ displayed = EmptyMap
    /\ appError = FALSE
    /\ idleDialog = [open |-> FALSE, dialogs |-> <<>>]
    /\ isAppRunning = TRUE
    /\ fetchDataIntervalId = << 1 >>
    /\ checkIdleIntervalId = << 2 >>
    /\ rafId = << "pending" >>
    /\ framePending = TRUE
    /\ events = 0

InitWith(ids, manualIds) == InitFrom(InitBackend(ids, manualIds))

Init == \E manualIds \in SUBSET {"p1"} : InitWith({"p1"}, manualIds)

\* Two projects: p1 may be in manual mode, Claude Code may be active in p2 (since
\* OpenSince ms), and the user's last input was idle ms before the load.
InitBackendEnv(manualIds, claudeIds, idle) ==
    [InitBackend(ProjectIds, manualIds \cup claudeIds) EXCEPT
        !.manual = [id \in ProjectIds |-> id \in manualIds],
        !.claude = [id \in ProjectIds |-> IF id \in claudeIds THEN "active" ELSE "stopped"],
        !.idle = << 0 - idle >>]

InitEnv ==
    \E manualIds \in SUBSET {"p1"} : \E claudeIds \in SUBSET {"p2"} : \E idle \in IdleTimes :
        InitFrom(InitBackendEnv(manualIds, claudeIds, idle))

----------------------------------------------------------------------------
(* Environment *)

\* A user or environment event happens, within the budget of the model.
Event ==
    /\ events < MaxEvents
    /\ events' = events + 1

\* Wall-clock time passes.
Tick ==
    /\ now < MaxTicks * TickMs
    /\ now' = now + TickMs
    /\ UNCHANGED << loopVars, events, backend, flightVars, currentStatus, knownProjectIds, storeVars,
                    lastFetchTime, lastRenderSecond, viewVars, idleDialog >>

\* The file watcher may emit "activity-log-changed" for a change of the backend
\* to b: the listener calls fetchData().
notified(b, notify) ==
    IF notify THEN fetches \cup {[kind |-> "fetch", status |-> fetchStatus(b, now)]}
    ELSE fetches

\* Claude Code becomes active / stops in the project directory (hook detection).
ClaudeStarts(id, notify) ==
    /\ id \in backend.projects
    /\ backend.claude[id] = "stopped"
    /\ backend' = [backend EXCEPT
            !.claude[id] = "active",
            !.start[id] = IF BackendTracking(backend, id) THEN @ ELSE now,
            !.version = @ + 1]
    /\ fetches' = notified(backend', notify)
    /\ Event
    /\ UNCHANGED << loopVars, now, commands, promiseAll, currentStatus, knownProjectIds, storeVars,
                    lastFetchTime, lastRenderSecond, viewVars, idleDialog >>

ClaudeStops(id, notify) ==
    /\ id \in backend.projects
    /\ backend.claude[id] = "active"
    /\ backend' = IF backend.manual[id]
                  THEN [backend EXCEPT !.claude[id] = "stopped", !.version = @ + 1]
                  ELSE [backend EXCEPT !.claude[id] = "stopped",
                                       !.week[id] = @ + (now - backend.start[id]),
                                       !.start[id] = 0,
                                       !.version = @ + 1]
    /\ fetches' = notified(backend', notify)
    /\ Event
    /\ UNCHANGED << loopVars, now, commands, promiseAll, currentStatus, knownProjectIds, storeVars,
                    lastFetchTime, lastRenderSecond, viewVars, idleDialog >>

\* The system idle duration becomes d: the user's last input is d ms ago.
IdleChanges(d) ==
    /\ d # systemIdleTime(backend, now)
    /\ backend' = [backend EXCEPT !.idle = << now - d >>, !.version = @ + 1]
    /\ Event
    /\ UNCHANGED << loopVars, now, flightVars, currentStatus, knownProjectIds, storeVars,
                    lastFetchTime, lastRenderSecond, viewVars, idleDialog >>

----------------------------------------------------------------------------
(* Commands completing *)

\* What the completion of command c starts: the then() of a toggle's stop
\* calls fetchData; the Promise.all of an idle resolution calls it once every
\* stop of the batch has been fulfilled.
fulfilledBatch(c) ==
    [promiseAll EXCEPT ![c.batch].left = @ - 1]

fetchesAfter(c, b) ==
    IF \/ c.then = "fetch"
       \/ c.then = "all" /\ fulfilledBatch(c)[c.batch].left = 0
                         /\ ~promiseAll[c.batch].rejected
    THEN fetches \cup {[kind |-> "fetch", status |-> fetchStatus(b, now)]}
    ELSE fetches

\* The backend applies the command and the invocation resolves.
CommandSucceeds(c) ==
    /\ c \in commands
    /\ LET b == IF c.op = "start" THEN BackendStart(backend, c.id, now)
                ELSE BackendStop(backend, c.id, c.endTime, now)
       IN  /\ backend' = b
           /\ fetches' = fetchesAfter(c, b)
    /\ commands' = commands \ {c}
    /\ promiseAll' = IF c.then = "all" THEN fulfilledBatch(c) ELSE promiseAll
    /\ UNCHANGED << loopVars, events, now, currentStatus, knownProjectIds, storeVars, lastFetchTime,
                    lastRenderSecond, viewVars, idleDialog >>

\* The invocation rejects: nothing is applied, no then() runs, and a
\* Promise.all that contains it rejects.
CommandFails(c) ==
    /\ c \in commands
    /\ commands' = commands \ {c}
    /\ promiseAll' = IF c.then = "all"
                     THEN [promiseAll EXCEPT ![c.batch].left = @ - 1,
                                             ![c.batch].rejected = TRUE]
                     ELSE promiseAll
    /\ UNCHANGED << loopVars, events, envVars, fetches, currentStatus, knownProjectIds, storeVars,
                    lastFetchTime, lastRenderSecond, viewVars, idleDialog >>

----------------------------------------------------------------------------
(* Status fetches *)

\* The 5 s interval calls fetchData(), as often as the interval fires.  A poll
\* is taken not to start while the response of another fetchData is
\* outstanding: the period is long against the latency of the backend.
FetchDataPolled ==
    /\ fetchDataIntervalId # <<>>
    /\ ~\E r \in fetches : r.kind = "fetch"
    /\ fetches' = fetches \cup {FetchResponse("fetch")}
    /\ UNCHANGED << loopVars, events, envVars, commands, promiseAll, currentStatus, knownProjectIds,
                    storeVars, lastFetchTime, lastRenderSecond, viewVars, idleDialog >>

\* fetchData() is called by the 5 s interval or by the "activity-log-changed"
\* event, whatever is in flight.
FetchDataCalled ==
    /\ Event
    /\ fetches' = fetches \cup {FetchResponse("fetch")}
    /\ UNCHANGED << loopVars, envVars, commands, promiseAll, currentStatus, knownProjectIds,
                    storeVars, lastFetchTime, lastRenderSecond, viewVars, idleDialog >>

\* rebuildProjects() is called by a dialog (add, delete, rename, set rate).
RebuildProjectsCalled ==
    /\ fetches' = fetches \cup {FetchResponse("rebuild")}
    /\ Event
    /\ UNCHANGED << loopVars, envVars, commands, promiseAll, currentStatus, knownProjectIds,
                    storeVars, lastFetchTime, lastRenderSecond, viewVars, idleDialog >>

\* Submit of the add form: "await addProject(...); rebuildProjects()".  The
\* step is the resolution of create_project, at which rebuildProjects calls
\* fetchStatus.
AddProject(id) ==
    /\ ~appError
    /\ id \notin backend.projects
    /\ backend' = BackendCreate(backend, id)
    /\ fetches' = fetches \cup {[kind |-> "rebuild", status |-> fetchStatus(backend', now)]}
    /\ Event
    /\ UNCHANGED << loopVars, now, commands, promiseAll, currentStatus, knownProjectIds,
                    storeVars, lastFetchTime, lastRenderSecond, viewVars, idleDialog >>

\* Delete in the menu of the card of id, confirmed: "await deleteProject(p.id);
\* await rebuildProjects()".
DeleteProject(id) ==
    /\ Has(cards, id)
    /\ backend' = BackendDelete(backend, id)
    /\ fetches' = fetches \cup {[kind |-> "rebuild", status |-> fetchStatus(backend', now)]}
    /\ Event
    /\ UNCHANGED << loopVars, now, commands, promiseAll, currentStatus, knownProjectIds,
                    storeVars, lastFetchTime, lastRenderSecond, viewVars, idleDialog >>

\* fetchData: the status with the overrides written into it.
overriddenStatus(st, local) ==
    [st EXCEPT !.projects =
        [id \in DOMAIN st.projects |->
            IF Has(local, id) THEN Overridden(st.projects[id], local[id])
            ELSE st.projects[id]]]

\* fetchData: the overrides and freezes left after the cleanup.
cleanedOverrides(st, local, frozen) ==
    [id \in {q \in DOMAIN local : ~cleanupOverride(st, local, frozen, q)} |-> local[id]]

\* A cleanup that drops the freeze of every inactive, untracked project without
\* waiting for the backend to catch up; fetchData deletes it with its override.
cleanedFrozenEager(st, local, frozen) ==
    [id \in {q \in DOMAIN frozen :
                ~(/\ Has(st.projects, q) /\ Has(local, q)
                  /\ cleanupCondition(st.projects[q], local[q]))} |-> frozen[id]]

cleanedFrozen(st, local, frozen) ==
    [id \in {q \in DOMAIN frozen : ~cleanupOverride(st, local, frozen, q)} |-> frozen[id]]

\* A comparison that only looks for ids that are not known; fetchData
\* compares the sizes too.
sameProjectsNoneNew(st) == DOMAIN st.projects \subseteq knownProjectIds

\* fetchData: sameProjects, "Check if projects changed".
sameProjects(st) ==
    /\ Cardinality(DOMAIN st.projects) = Cardinality(knownProjectIds)
    /\ \A id \in DOMAIN st.projects : id \in knownProjectIds

\* fetchData after its await: r is the response of fetchStatus().
FetchDataCompletes(r) ==
    /\ r \in fetches
    /\ r.kind = "fetch"
    /\ lastFetchTime' = now
    /\ localManualMode' = cleanedOverrides(r.status, localManualMode, frozenTimes)
    /\ frozenTimes' = cleanedFrozen(r.status, localManualMode, frozenTimes)
    /\ LET st == overriddenStatus(r.status, localManualMode)
       IN  /\ currentStatus' = << st >>
           /\ IF ~sameProjects(st)
              THEN \* await rebuildProjects(); return
                   /\ fetches' = (fetches \ {r}) \cup {FetchResponse("pollRebuild")}
                   /\ UNCHANGED << lastProjectStates, cards >>
              ELSE /\ fetches' = fetches \ {r}
                   /\ lastProjectStates' = updatedStates(lastProjectStates, st.projects)
                   /\ cards' = updatedCards(lastProjectStates, cards, st.projects)
    /\ UNCHANGED << loopVars, events, envVars, commands, promiseAll, knownProjectIds, lastRenderedTimes,
                    lastRenderSecond, header, displayed, appError, idleDialog >>

\* fetchStatus() rejects inside fetchData: "Ignore fetch errors".
FetchDataFails(r) ==
    /\ r \in fetches
    /\ r.kind = "fetch"
    /\ fetches' = fetches \ {r}
    /\ UNCHANGED << loopVars, events, envVars, commands, promiseAll, currentStatus, knownProjectIds,
                    storeVars, lastFetchTime, lastRenderSecond, viewVars, idleDialog >>

\* A sync that starts the override at the time of the rebuild; rebuildProjects
\* starts it elapsedTime earlier.
syncedOverridesAtNow(st, local, t) ==
    [id \in (DOMAIN local) \cup {q \in DOMAIN st.projects : st.projects[q].manualMode} |->
        IF Has(local, id) THEN local[id]
        ELSE [active |-> TRUE, startTime |-> t]]

\* A sync that starts the override elapsedTime after the rebuild; rebuildProjects
\* starts it elapsedTime before.
syncedOverridesAhead(st, local, t) ==
    [id \in (DOMAIN local) \cup {q \in DOMAIN st.projects : st.projects[q].manualMode} |->
        IF Has(local, id) THEN local[id]
        ELSE [active |-> TRUE, startTime |-> t + st.projects[id].elapsedTime]]

\* rebuildProjects: "Sync local state with backend state on initial load".
syncedOverrides(st, local, t) ==
    [id \in (DOMAIN local) \cup {q \in DOMAIN st.projects : st.projects[q].manualMode} |->
        IF Has(local, id) THEN local[id]
        ELSE [active |-> TRUE, startTime |-> t - st.projects[id].elapsedTime]]

\* A response to the fetchStatus() of rebuildProjects: called at load or by a
\* dialog ("rebuild"), or by fetchData when the project set changed
\* ("pollRebuild").
isRebuild(r) == r.kind \in {"rebuild", "pollRebuild"}

\* rebuildProjects after its await: r is the response of fetchStatus().  Once
\* #app has been replaced there is no #projects-container: the statement after
\* the assignment of currentStatus throws into the catch.
RebuildProjectsCompletes(r) ==
    /\ r \in fetches
    /\ isRebuild(r)
    /\ fetches' = fetches \ {r}
    /\ currentStatus' = << r.status >>
    /\ IF appError
       THEN UNCHANGED << knownProjectIds, localManualMode, cards, lastProjectStates >>
       ELSE /\ knownProjectIds' = DOMAIN r.status.projects
            /\ localManualMode' = syncedOverrides(r.status, localManualMode, now)
            /\ cards' = [id \in DOMAIN r.status.projects |->
                            createProjectCard(r.status.projects[id])]
            /\ lastProjectStates' = updatedStates(lastProjectStates, r.status.projects)
    /\ UNCHANGED << loopVars, events, envVars, commands, promiseAll, frozenTimes, lastRenderedTimes,
                    lastFetchTime, lastRenderSecond, header, displayed, appError, idleDialog >>

\* fetchStatus() rejects inside rebuildProjects: the catch replaces the content
\* of #app (header, form and project cards) by the error text.
RebuildProjectsFails(r) ==
    /\ r \in fetches
    /\ isRebuild(r)
    /\ fetches' = fetches \ {r}
    /\ cards' = EmptyMap
    /\ appError' = TRUE
    /\ UNCHANGED << loopVars, events, envVars, commands, promiseAll, currentStatus, knownProjectIds,
                    storeVars, lastFetchTime, lastRenderSecond, lastProjectStates, header,
                    displayed, idleDialog >>

----------------------------------------------------------------------------
(* The render loop *)

\* renderTimers: what it computes for each project of the held Status.
allRenderedTimes(t) ==
    [id \in StatusIds |->
        renderedTimes(Status.projects[id], localManualMode, frozenTimes, id, t, lastFetchTime)]

\* renderTimers: "Store what we just calculated so stop button can freeze it".
cachedTimes(cache, frozen, times) ==
    [id \in (DOMAIN cache) \cup {q \in DOMAIN times : ~Has(frozen, q)} |->
        IF Has(times, id) /\ ~Has(frozen, id) THEN times[id] ELSE cache[id]]

\* A renderTimers that never returns at its first line; the function returns
\* once cleanup has cleared isAppRunning.
renderTimersReturnsNever == FALSE

\* renderTimers: "if (!isAppRunning) return".
renderTimersReturns == ~isAppRunning

\* A throttle that lets every frame through; renderTimers compares the second
\* of the frame with lastRenderSecond.
throttledNever(t) == FALSE

\* renderTimers: "Only update DOM once per second".
throttled(t) == t \div SECOND_MS = lastRenderSecond

\* An animation frame in a new wall-clock second: the display is written, and
\* the next frame is requested with its handle kept in rafId.
RenderTimers ==
    /\ framePending
    /\ ~renderTimersReturns
    /\ HasStatus
    /\ ~throttled(now)
    /\ lastRenderSecond' = now \div SECOND_MS
    /\ LET times == allRenderedTimes(now)
       IN  /\ lastRenderedTimes' = cachedTimes(lastRenderedTimes, frozenTimes, times)
           /\ cards' = [id \in DOMAIN cards |->
                          IF Has(times, id)
                          THEN [cards[id] EXCEPT !.week = times[id].weekTime,
                                                 !.today = times[id].todayTime]
                          ELSE cards[id]]
           /\ displayed' = [id \in (DOMAIN displayed) \cup (DOMAIN times \cap DOMAIN cards) |->
                              IF Has(times, id) /\ Has(cards, id) THEN times[id]
                              ELSE displayed[id]]
           /\ header' = IF appError THEN header
                         ELSE [ week  |-> SumOver([id \in DOMAIN times |-> times[id].weekTime],
                                                  DOMAIN times),
                                today |-> SumOver([id \in DOMAIN times |-> times[id].todayTime],
                                                  DOMAIN times) ]
    /\ rafId' = << "pending" >>
    /\ framePending' = TRUE
    /\ UNCHANGED << isAppRunning, fetchDataIntervalId, checkIdleIntervalId, events, envVars,
                    flightVars, currentStatus, knownProjectIds, localManualMode,
                    frozenTimes, lastFetchTime, lastProjectStates, appError, idleDialog >>

\* An animation frame that writes nothing.  After cleanup the callback returns
\* and requests no frame.  With no Status it requests the next frame and keeps
\* the handle.  In the second of lastRenderSecond it requests the next frame
\* and drops the handle: rafId is left holding the handle of the frame that
\* has just been called.
RenderTimersSkips ==
    /\ framePending
    /\ IF renderTimersReturns
       THEN framePending' = FALSE /\ rafId' = rafId
       ELSE IF ~HasStatus
       THEN framePending' = TRUE /\ rafId' = << "pending" >>
       ELSE /\ throttled(now)
            /\ framePending' = TRUE
            /\ rafId' = IF rafId = << "pending" >> THEN << "called" >> ELSE rafId
    /\ UNCHANGED << isAppRunning, fetchDataIntervalId, checkIdleIntervalId, events, envVars,
                    flightVars, currentStatus, knownProjectIds, storeVars, lastFetchTime,
                    lastRenderSecond, viewVars, idleDialog >>

\* cleanup ("beforeunload"): the intervals are cleared and the frame whose
\* handle rafId holds is cancelled; cancelling the handle of a frame that has
\* been called cancels nothing.
Cleanup ==
    /\ isAppRunning' = FALSE
    /\ fetchDataIntervalId' = <<>>
    /\ checkIdleIntervalId' = <<>>
    /\ framePending' = IF rafId = << "pending" >> THEN FALSE ELSE framePending
    /\ rafId' = <<>>
    /\ UNCHANGED << events, envVars, flightVars, currentStatus, knownProjectIds, storeVars,
                    lastFetchTime, lastRenderSecond, viewVars, idleDialog >>

----------------------------------------------------------------------------
(* The toggles of a project card *)

\* Both handlers: "Update UI immediately from local state".
toggleView(id, wasActive) ==
    IF HasStatus /\ Has(Status.projects, id)
    THEN LET current == toggledProject(Status.projects[id], wasActive)
             one == [q \in {id} |-> current]
         IN  /\ currentStatus' = << [Status EXCEPT !.projects[id] = current] >>
             /\ lastProjectStates' = updatedStates(lastProjectStates, one)
             /\ cards' = updatedCards(lastProjectStates, cards, one)
    ELSE UNCHANGED << currentStatus, lastProjectStates, cards >>

\* Play button handler, stop branch: "Freeze the exact times that renderTimers
\* last calculated and displayed".
playStopFrozen(id) ==
    IF Has(lastRenderedTimes, id)
    THEN MapSet(frozenTimes, id, [weekTime  |-> lastRenderedTimes[id].weekTime,
                                  todayTime |-> lastRenderedTimes[id].todayTime])
    ELSE frozenTimes

\* Double-click handler, stop branch: frozenTimes is not written.
dblclickStopFrozen(id) == frozenTimes

\* Either handler, start branch: frozenTimes is not written.
startFrozen(id) == frozenTimes

toggle(id, stopFrozen) ==
    /\ Has(cards, id)
    /\ IF isActive(localManualMode, id)
       THEN /\ frozenTimes' = stopFrozen
            /\ localManualMode' = MapSet(localManualMode, id, [active |-> FALSE, startTime |-> 0])
            /\ commands' = commands \cup {StopCommand(id)}
       ELSE /\ frozenTimes' = startFrozen(id)
            /\ localManualMode' = MapSet(localManualMode, id, [active |-> TRUE, startTime |-> now])
            /\ commands' = commands \cup {StartCommand(id)}
    /\ toggleView(id, isActive(localManualMode, id))
    /\ Event
    /\ UNCHANGED << loopVars, envVars, fetches, promiseAll, knownProjectIds, lastRenderedTimes,
                    lastFetchTime, lastRenderSecond, header, displayed, appError, idleDialog >>

\* Click on the play/stop button of the card of id.
PlayClick(id) == toggle(id, playStopFrozen(id))

\* Double-click on the card of id.
DblClick(id) == toggle(id, dblclickStopFrozen(id))

----------------------------------------------------------------------------
(* Idle detection *)

\* A checkIdle that does not look at idleDialogOpen; the function returns while
\* a dialog is open.
checkIdleReturnsNoStatus == ~HasStatus

\* checkIdle: "if (!currentStatus || idleDialogOpen) return".
checkIdleReturns == ~HasStatus \/ idleDialog.open

\* checkIdle: the projects the dialog is opened for.
trackingProjectsOf(st) == {id \in DOMAIN st.projects : st.projects[id].isTracking}

\* A threshold test that is met one millisecond early; the test of checkIdle
\* is systemIdleTime >= IDLE_THRESHOLD_MS.
idleThresholdReachedEarly(st) == st.systemIdleTime >= IDLE_THRESHOLD_MS - 1

\* checkIdle: the threshold test.
idleThresholdReached(st) == st.systemIdleTime >= IDLE_THRESHOLD_MS

\* showIdleDialog(idleTime, trackingProjects): the dialog appended to
\* document.body with the values its handlers close over.
shownDialog(idleTime, trackingProjects) ==
    [idleTime |-> idleTime, trackingProjects |-> trackingProjects]

\* A removal that leaves the dialog in the document.
removedDialogKept(ds, i) == ds

\* dialog.remove() of the i-th dialog in document.body.
removedDialog(ds, i) == SubSeq(ds, 1, i - 1) \o SubSeq(ds, i + 1, Len(ds))

\* checkIdle (10 s interval) opens the dialog.  (With no Status, an open dialog,
\* no tracking project or an idle time under the threshold it does nothing.)
CheckIdle ==
    /\ checkIdleIntervalId # <<>>
    /\ ~checkIdleReturns
    /\ trackingProjectsOf(Status) # {}
    /\ idleThresholdReached(Status)
    /\ idleDialog' = [ open    |-> TRUE,
                       dialogs |-> Append(idleDialog.dialogs,
                                          shownDialog(Status.systemIdleTime,
                                                      trackingProjectsOf(Status))) ]
    /\ UNCHANGED << loopVars, events, envVars, flightVars, currentStatus, knownProjectIds, storeVars,
                    lastFetchTime, lastRenderSecond, viewVars >>

\* The Continue button of the i-th dialog.
IdleContinue(i) ==
    /\ i \in DOMAIN idleDialog.dialogs
    /\ idleDialog' = [open |-> FALSE, dialogs |-> removedDialog(idleDialog.dialogs, i)]
    /\ Event
    /\ UNCHANGED << loopVars, envVars, flightVars, currentStatus, knownProjectIds, storeVars,
                    lastFetchTime, lastRenderSecond, viewVars >>

\* A batch that leaves out the projects only Claude Code keeps tracking; the
\* handler stops every project the dialog was opened for.
idleBatchManualOnly(d) == {id \in d.trackingProjects : isActive(localManualMode, id)}

\* Stop All handler: the projects it stops are the ones the dialog was opened
\* for.
idleBatch(d) == d.trackingProjects

\* Stop All handler: the endTime passed to stopTracking.
idleEndTime(discardIdle, idleTime, t) ==
    IF discardIdle THEN << t - idleTime >> ELSE <<>>

\* The Stop All button of the i-th dialog, with the radio button "discard"
\* checked or not.
IdleStopAll(i, discardIdle) ==
    /\ i \in DOMAIN idleDialog.dialogs
    /\ LET d == idleDialog.dialogs[i]
           ids == idleBatch(d)
           n == Cardinality(DOMAIN promiseAll) + 1
           endTime == idleEndTime(discardIdle, d.idleTime, now)
           stopped == [id \in ids \cap StatusIds |-> idleStoppedProject(Status.projects[id])]
       IN  /\ localManualMode' =
                 [id \in (DOMAIN localManualMode) \cup ids |->
                     IF id \in ids THEN [active |-> FALSE, startTime |-> 0]
                     ELSE localManualMode[id]]
           /\ commands' = commands \cup {IdleStopCommand(id, endTime, n) : id \in ids}
           /\ promiseAll' = MapSet(promiseAll, n,
                                   [left |-> Cardinality(ids), rejected |-> FALSE])
           /\ IF HasStatus
              THEN /\ currentStatus' =
                        << [Status EXCEPT !.projects =
                              [id \in StatusIds |->
                                 IF id \in ids THEN stopped[id] ELSE Status.projects[id]]] >>
                   /\ lastProjectStates' = updatedStates(lastProjectStates, stopped)
                   /\ cards' = updatedCards(lastProjectStates, cards, stopped)
              ELSE UNCHANGED << currentStatus, lastProjectStates, cards >>
    /\ idleDialog' = [open |-> FALSE, dialogs |-> removedDialog(idleDialog.dialogs, i)]
    /\ Event
    /\ UNCHANGED << loopVars, envVars, fetches, knownProjectIds, frozenTimes, lastRenderedTimes,
                    lastFetchTime, lastRenderSecond, header, displayed, appError >>

----------------------------------------------------------------------------

\* The client with its user, the clock and the backend's replies.
Next ==
    \/ Tick
    \/ \E c \in commands : CommandSucceeds(c)
    \/ \E c \in commands : CommandFails(c)
    \/ FetchDataCalled
    \/ RebuildProjectsCalled
    \/ \E r \in fetches : FetchDataCompletes(r)
    \/ \E r \in fetches : FetchDataFails(r)
    \/ \E r \in fetches : RebuildProjectsCompletes(r)
    \/ \E r \in fetches : RebuildProjectsFails(r)
    \/ RenderTimers
    \/ \E id \in ProjectIds : PlayClick(id)
    \/ \E id \in ProjectIds : DblClick(id)

Spec == Init /\ [][Next]_vars

\* The polling client: the interval keeps calling fetchData, every invocation
\* is answered and fulfilled, and the user toggles with the play button.
NextPolling ==
    \/ Tick
    \/ \E c \in commands : CommandSucceeds(c)
    \/ FetchDataPolled
    \/ \E r \in fetches : FetchDataCompletes(r)
    \/ \E r \in fetches : RebuildProjectsCompletes(r)
    \/ RenderTimers
    \/ \E id \in ProjectIds : PlayClick(id)

\* setInterval keeps firing, requestAnimationFrame keeps calling back, and the
\* backend answers every invocation.
PollingFairness ==
    /\ WF_vars(FetchDataPolled)
    /\ WF_vars(\E r \in fetches : FetchDataCompletes(r))
    /\ WF_vars(\E r \in fetches : RebuildProjectsCompletes(r))
    /\ WF_vars(\E c \in commands : CommandSucceeds(c))
    /\ WF_vars(RenderTimers)

SpecPolling == Init /\ [][NextPolling]_vars /\ PollingFairness

\* The client with Claude Code's activity, the system idle time and the idle
\* dialog: fetches are the ones the notifications and the completed stops
\* start.  The render loop writes nothing that the idle workflow reads and is
\* left out.
NextEnv ==
    \/ Tick
    \/ \E c \in commands : CommandSucceeds(c)
    \/ \E c \in commands : CommandFails(c)
    \/ \E r \in fetches : FetchDataCompletes(r)
    \/ \E r \in fetches : RebuildProjectsCompletes(r)
    \/ \E id \in ProjectIds : PlayClick(id)
    \/ \E id \in ProjectIds : \E notify \in BOOLEAN : ClaudeStarts(id, notify)
    \/ \E id \in ProjectIds : \E notify \in BOOLEAN : ClaudeStops(id, notify)
    \/ \E d \in IdleTimes : IdleChanges(d)
    \/ CheckIdle
    \/ \E i \in DOMAIN idleDialog.dialogs : IdleContinue(i)
    \/ \E i \in DOMAIN idleDialog.dialogs : \E d \in BOOLEAN : IdleStopAll(i, d)

SpecEnv == InitEnv /\ [][NextEnv]_vars

\* The lifetime of the window: one project, the intervals and the animation
\* frames keep firing until the window unloads.
InitLoop ==
    \E manualIds \in SUBSET {"p1"} : \E idle \in {0, IDLE_THRESHOLD_MS} :
        InitFrom([InitBackend({"p1"}, manualIds) EXCEPT !.idle = << 0 - idle >>])

NextLoop ==
    \/ Tick
    \/ FetchDataPolled
    \/ \E r \in fetches : FetchDataCompletes(r)
    \/ \E r \in fetches : RebuildProjectsCompletes(r)
    \/ RenderTimers
    \/ RenderTimersSkips
    \/ CheckIdle
    \/ Cleanup

SpecLoop == InitLoop /\ [][NextLoop]_vars

\* The client of a project that the backend tracks by itself: Claude Code has
\* been active in p1 for OpenSince ms when the window loads, and the user
\* toggles the card.
InitAuto ==
    InitFrom([InitBackend({"p1"}, {"p1"}) EXCEPT
                 !.manual = [id \in ProjectIds |-> FALSE],
                 !.claude = [id \in ProjectIds |-> IF id = "p1" THEN "active" ELSE "stopped"]])

NextAuto ==
    \/ Tick
    \/ \E c \in commands : CommandSucceeds(c)
    \/ FetchDataCalled
    \/ \E r \in fetches : FetchDataCompletes(r)
    \/ \E r \in fetches : RebuildProjectsCompletes(r)
    \/ RenderTimers
    \/ \E id \in ProjectIds : PlayClick(id)
    \/ \E id \in ProjectIds : DblClick(id)

SpecAuto == InitAuto /\ [][NextAuto]_vars

\* The client while projects are added and deleted: p1 exists at load, p2 can
\* be added, either can be deleted.
NextProjects ==
    \/ Tick
    \/ \E c \in commands : CommandSucceeds(c)
    \/ FetchDataCalled
    \/ \E r \in fetches : FetchDataCompletes(r)
    \/ \E r \in fetches : RebuildProjectsCompletes(r)
    \/ RenderTimers
    \/ \E id \in ProjectIds : PlayClick(id)
    \/ \E id \in ProjectIds : AddProject(id)
    \/ \E id \in ProjectIds : DeleteProject(id)

SpecProjects == Init /\ [][NextProjects]_vars

----------------------------------------------------------------------------
(* Properties *)

\* A toggle of id that stops it / starts it, by either handler.
StopToggle(id) == isActive(localManualMode, id) /\ (PlayClick(id) \/ DblClick(id))
StartToggle(id) == ~isActive(localManualMode, id) /\ (PlayClick(id) \/ DblClick(id))

\* What a render of id yields in the current state at time t.
RenderOf(id, t) ==
    renderedTimes(Status.projects[id], localManualMode, frozenTimes, id, t, lastFetchTime)

\* The pair the last render of id produced.
LastProduced(id) ==
    IF Has(frozenTimes, id) THEN frozenTimes[id] ELSE lastRenderedTimes[id]

Times == {k * TickMs : k \in 0..MaxTicks}

\* The whole seconds that formatDuration prints for ms.
shownSeconds(ms) == ms \div 1000

\* C1: the week/today value renderTimers writes for a project, as the seconds
\* that are printed, is never smaller than the one it wrote for that project
\* before.
C1_DisplayNeverDecreases ==
    [][\A id \in DOMAIN displayed :
          /\ shownSeconds(displayed'[id].weekTime) >= shownSeconds(displayed[id].weekTime)
          /\ shownSeconds(displayed'[id].todayTime) >= shownSeconds(displayed[id].todayTime)]_vars

\* C2: a freeze exists only together with an inactive override of the same id.
C2_FreezeOnlyWithInactiveOverride ==
    \A id \in DOMAIN frozenTimes :
        Has(localManualMode, id) /\ ~localManualMode[id].active

\* C3: right after a stop toggle of a project that has been rendered, a render
\* at any time yields the pair last produced before the stop, and the freeze
\* stays as it is until fetchData deletes it.
C3_FreezeLaw ==
    [][\A id \in ProjectIds :
          /\ (StopToggle(id) /\ (Has(frozenTimes, id) \/ Has(lastRenderedTimes, id))
                             /\ HasStatus /\ Has(Status.projects, id))
                => \A t \in Times : RenderOf(id, t)' = LastProduced(id)
          /\ (Has(frozenTimes, id) /\ ~\E r \in fetches : FetchDataCompletes(r))
                => Has(frozenTimes', id) /\ frozenTimes'[id] = frozenTimes[id]]_vars

\* C4: where an override exists for a project of the held Status, the flags of
\* that project in the held Status are the ones the override gives.
C4_OverrideDrivesFlags ==
    \A id \in (DOMAIN localManualMode) \cap StatusIds :
        LET p == Status.projects[id]
        IN  /\ p.manualMode = localManualMode[id].active
            /\ p.isTracking = (localManualMode[id].active \/ p.claudeState = "active")

\* C5: fetchData deletes an override only if it is inactive and the snapshot,
\* as the backend reported it, shows the project not tracking.
C5_DeleteOnlyWhenBackendConfirms ==
    [][\A r \in fetches : \A id \in DOMAIN localManualMode :
          (FetchDataCompletes(r) /\ ~Has(localManualMode', id))
             => /\ ~localManualMode[id].active
                /\ Has(r.status.projects, id)
                /\ ~r.status.projects[id].isTracking
                /\ ~r.status.projects[id].manualMode]_vars

\* C6: fetchData, for an inactive override and a snapshot reporting not
\* tracking: with a freeze it deletes both exactly when the week times differ by
\* less than 1000 ms, and keeps both otherwise; with no freeze it deletes the
\* override.  No fetchData deletes one of the pair and keeps the other.
C6_CatchUpTolerance ==
    [][\A r \in fetches : FetchDataCompletes(r) =>
          \A id \in DOMAIN localManualMode :
             /\ (/\ ~localManualMode[id].active
                 /\ Has(r.status.projects, id)
                 /\ ~r.status.projects[id].isTracking)
                  => IF Has(frozenTimes, id)
                     THEN IF Abs(r.status.projects[id].weekTime - frozenTimes[id].weekTime) < 1000
                          THEN ~Has(localManualMode', id) /\ ~Has(frozenTimes', id)
                          ELSE /\ Has(localManualMode', id) /\ Has(frozenTimes', id)
                               /\ localManualMode'[id] = localManualMode[id]
                               /\ frozenTimes'[id] = frozenTimes[id]
                     ELSE ~Has(localManualMode', id)
             /\ Has(frozenTimes, id) => (Has(localManualMode', id) <=> Has(frozenTimes', id))]_vars

\* C6, witnesses: a response reporting not tracking is about to be reconciled
\* against a freeze it is within the tolerance of without being equal to it / it
\* is not within the tolerance of.
C6_Pending(id, r) ==
    /\ r \in fetches /\ r.kind = "fetch"
    /\ Has(r.status.projects, id) /\ ~r.status.projects[id].isTracking
    /\ Has(localManualMode, id) /\ ~localManualMode[id].active
    /\ Has(frozenTimes, id)

C6_WitnessWithin ==
    \E r \in fetches :
        /\ C6_Pending("p1", r)
        /\ r.status.projects["p1"].weekTime # frozenTimes["p1"].weekTime
        /\ Abs(r.status.projects["p1"].weekTime - frozenTimes["p1"].weekTime) < 1000

C6_WitnessBeyond ==
    \E r \in fetches :
        /\ C6_Pending("p1", r)
        /\ Abs(r.status.projects["p1"].weekTime - frozenTimes["p1"].weekTime) >= 1000

\* C7: once a fetched weekTime within 1000 ms of the frozen weekTime of a
\* project is on its way to fetchData, the freeze and the override of that
\* project are eventually deleted.
C7_Convergence ==
    \A id \in ProjectIds :
        (\E r \in fetches :
            /\ r.kind = "fetch"
            /\ Has(frozenTimes, id)
            /\ Has(r.status.projects, id)
            /\ Abs(r.status.projects[id].weekTime - frozenTimes[id].weekTime) < 1000)
        ~> (~Has(frozenTimes, id) /\ ~Has(localManualMode, id))

\* C8: the held Status is never replaced by one that shows an older state of
\* the backend.
C8_NoStaleOverwrite ==
    [][(HasStatus /\ currentStatus' # <<>>)
          => currentStatus'[1].asOf >= Status.asOf]_vars

\* C9: every stop toggle of a rendered project, by the play button or by a
\* double-click, copies the last rendered pair into frozenTimes, sets the
\* override to {active: false, startTime: 0} and issues the stop command.
C9_StopFreezesLastRendered ==
    [][\A id \in ProjectIds :
          (StopToggle(id) /\ Has(lastRenderedTimes, id))
             => /\ Has(frozenTimes', id)
                /\ frozenTimes'[id] = lastRenderedTimes[id]
                /\ localManualMode'[id] = [active |-> FALSE, startTime |-> 0]
                /\ StopCommand(id) \in commands']_vars

----------------------------------------------------------------------------
(* Properties of the idle workflow *)

\* The stop commands a step issues.
Issued == commands' \ commands

\* C11: Stop All on a dialog opened for N tracking projects issues exactly N
\* stop commands, one per project, and sets the overrides of exactly those N
\* projects to inactive in the same step; the backend has applied nothing yet.
C11_IdleBatchAtomic ==
    [][\A i \in DOMAIN idleDialog.dialogs : \A discard \in BOOLEAN :
          IdleStopAll(i, discard) =>
             LET ids == idleDialog.dialogs[i].trackingProjects
             IN  /\ Cardinality(Issued) = Cardinality(ids)
                 /\ \A c \in Issued : c.op = "stop" /\ c.id \in ids
                 /\ \A id \in ids : Cardinality({c \in Issued : c.id = id}) = 1
                 /\ DOMAIN localManualMode' = (DOMAIN localManualMode) \cup ids
                 /\ \A id \in ids : localManualMode'[id] = [active |-> FALSE, startTime |-> 0]
                 /\ \A id \in (DOMAIN localManualMode) \ ids :
                        localManualMode'[id] = localManualMode[id]
                 /\ backend' = backend]_vars

\* C11, witness: the two stops of one batch are both in flight, both overrides
\* are already inactive, and the backend still has p1 in manual mode.
C11_Witness ==
    \E c1, c2 \in commands :
        /\ c1.then = "all" /\ c2.then = "all" /\ c1.batch = c2.batch
        /\ c1.id = "p1" /\ c2.id = "p2"
        /\ promiseAll[c1.batch].left = 2
        /\ \A id \in {"p1", "p2"} : Has(localManualMode, id) /\ ~localManualMode[id].active
        /\ backend.manual["p1"]

\* C12: Stop All stops the projects that are tracking in the held Status at the
\* moment of the click: one started while the dialog was open is stopped too,
\* one that stopped meanwhile gets no stop command.
C12_BatchIsCurrentlyTracking ==
    [][\A i \in DOMAIN idleDialog.dialogs : \A discard \in BOOLEAN :
          IdleStopAll(i, discard) =>
             {c.id : c \in Issued} = trackingProjectsOf(Status)]_vars

\* C13: at most one idle dialog is in the document, and idleDialogOpen tells
\* whether one is.
C13_SingleFlight ==
    /\ Len(idleDialog.dialogs) <= 1
    /\ idleDialog.open <=> Len(idleDialog.dialogs) = 1

\* C13, witness: a dialog is open while everything else checkIdle tests would
\* let it open one.
C13_Witness ==
    /\ Len(idleDialog.dialogs) = 1
    /\ HasStatus
    /\ trackingProjectsOf(Status) # {}
    /\ idleThresholdReached(Status)

\* C14: a dialog is opened only when the held Status has a tracking project and
\* a systemIdleTime of at least 300000 ms, and by a step that changes nothing
\* else; the dialog shows that idle time and those projects.
C14_IdleTrigger ==
    [][Len(idleDialog'.dialogs) > Len(idleDialog.dialogs) =>
          /\ HasStatus
          /\ \E id \in StatusIds : Status.projects[id].isTracking
          /\ Status.systemIdleTime >= 300000
          /\ idleDialog'.dialogs[Len(idleDialog'.dialogs)] =
                [ idleTime |-> Status.systemIdleTime,
                  trackingProjects |-> {id \in StatusIds : Status.projects[id].isTracking} ]
          /\ UNCHANGED << now, backend, fetches, commands, promiseAll, currentStatus,
                          knownProjectIds, localManualMode, frozenTimes, lastRenderedTimes,
                          lastFetchTime, lastRenderSecond, lastProjectStates, cards, header,
                          displayed, appError, events, loopVars >>]_vars

\* C14, witness: a dialog was opened at exactly the threshold.
C14_Witness ==
    \E i \in DOMAIN idleDialog.dialogs :
        /\ idleDialog.dialogs[i].idleTime = 300000
        /\ idleDialog.dialogs[i].trackingProjects # {}

\* C15: with "discard" every stop command of the batch carries the end time
\* now - idle duration, the instant the idle gap began; with "keep" it carries
\* none.
C15_DiscardExcludesIdleGap ==
    [][\A i \in DOMAIN idleDialog.dialogs :
          /\ IdleStopAll(i, TRUE) =>
                \A c \in Issued : c.endTime = << now - systemIdleTime(backend, now) >>
          /\ IdleStopAll(i, FALSE) =>
                \A c \in Issued : c.endTime = <<>>]_vars

\* C16: when the last stop command of an idle batch settles, fulfilled or
\* rejected, fetchData is called in that step: a fetchStatus of that instant is
\* in flight.
C16_RefreshWhenBatchSettles ==
    [][\A c \in commands :
          (/\ c.then = "all"
           /\ CommandSucceeds(c) \/ CommandFails(c)
           /\ ~\E c2 \in commands \ {c} : c2.then = "all" /\ c2.batch = c.batch)
             => [kind |-> "fetch", status |-> fetchStatus(backend', now)] \in fetches']_vars

----------------------------------------------------------------------------
(* Properties of commands and fetches *)

\* C17: a stop toggle, by either handler, sets the override to {active: false,
\* startTime: 0} and issues one stop command with no end time; when a toggle's
\* stop command is fulfilled, fetchData is called in that step.
C17_StopThenRefresh ==
    [][/\ \A id \in ProjectIds : StopToggle(id) =>
              /\ localManualMode'[id] = [active |-> FALSE, startTime |-> 0]
              /\ Cardinality(Issued) = 1
              /\ \A c \in Issued : c.op = "stop" /\ c.id = id /\ c.endTime = <<>>
       /\ \A c \in commands :
              (c.op = "stop" /\ c.batch = 0 /\ CommandSucceeds(c))
                 => [kind |-> "fetch", status |-> fetchStatus(backend', now)] \in fetches']_vars

\* C17, witness: the stop of p1 has been applied and fulfilled, and the refresh
\* it started is in flight.
C17_Witness ==
    /\ Has(localManualMode, "p1") /\ ~localManualMode["p1"].active
    /\ commands = {}
    /\ ~backend.manual["p1"]
    /\ backend.version > 0
    /\ \E r \in fetches : r.kind = "fetch" /\ r.status.asOf = backend.version

\* C18: fetchData run again on the same fetched Status, right after it has run,
\* leaves localManualMode and frozenTimes as the first run left them.
C18_ReconciliationIdempotent ==
    [][\A r \in fetches : FetchDataCompletes(r) =>
          /\ cleanedOverrides(r.status, localManualMode', frozenTimes') = localManualMode'
          /\ cleanedFrozen(r.status, localManualMode', frozenTimes') = frozenTimes']_vars

\* C18, witness: a response is in flight whose first run deletes the override
\* of p1, with its freeze or without one.
C18_Witness ==
    \E r \in fetches :
        /\ r.kind = "fetch"
        /\ cleanupOverride(r.status, localManualMode, frozenTimes, "p1")
        /\ cleanedOverrides(r.status, localManualMode, frozenTimes) # localManualMode

\* C19: a status fetch that fails in fetchData, or in the rebuildProjects that
\* fetchData calls, changes none of currentStatus, lastFetchTime,
\* localManualMode, frozenTimes and knownProjectIds, and shows no error.
C19_FetchFailureIsSilent ==
    [][\A r \in fetches :
          (FetchDataFails(r) \/ (r.kind = "pollRebuild" /\ RebuildProjectsFails(r)))
             => /\ UNCHANGED << currentStatus, lastFetchTime, localManualMode, frozenTimes,
                                knownProjectIds >>
                /\ ~appError'
                /\ cards' = cards]_vars

\* C20: a command that fails changes neither localManualMode nor frozenTimes,
\* and an active override stays as it is through every step that is not a stop
\* toggle of its project or a Stop All of a dialog that lists it.
C20_FlipIsPermanent ==
    [][/\ (\E c \in commands : CommandFails(c)) => UNCHANGED << localManualMode, frozenTimes >>
       /\ \A id \in ProjectIds :
             (/\ isActive(localManualMode, id)
              /\ ~StopToggle(id)
              /\ ~\E i \in DOMAIN idleDialog.dialogs : \E discard \in BOOLEAN :
                     IdleStopAll(i, discard) /\ id \in idleDialog.dialogs[i].trackingProjects)
                => /\ Has(localManualMode', id)
                   /\ localManualMode'[id] = localManualMode[id]]_vars

\* C20, witness: the stop command of p1 was rejected (the backend never applied
\* anything and nothing is in flight); the inactive override and the freeze of
\* the toggle are still there.
C20_Witness ==
    /\ Has(localManualMode, "p1") /\ ~localManualMode["p1"].active
    /\ Has(frozenTimes, "p1")
    /\ commands = {}
    /\ backend.manual["p1"]
    /\ backend.version = 0

----------------------------------------------------------------------------
(* Properties of the render loop *)

\* What only renderTimers writes.
renderOutput == << lastRenderSecond, lastRenderedTimes, header, displayed >>

\* C21: renderTimers writes the display at most once per wall-clock second: a
\* step that writes happens in a second later than the one of the write before
\* it and records its own second; and a frame that writes nothing while the
\* application runs requests the next frame.
C21_Throttled ==
    [][/\ (RenderTimers \/ renderOutput' # renderOutput)
            => /\ lastRenderSecond < now \div 1000
               /\ lastRenderSecond' = now \div 1000
       /\ (RenderTimersSkips /\ isAppRunning) => framePending']_vars

\* C21, witness: a frame has been skipped in the second of the last write, the
\* running timer of p1 has moved on since that write, and the next frame is
\* pending.
C21_Witness ==
    /\ isAppRunning /\ HasStatus
    /\ lastRenderSecond = now \div 1000
    /\ rafId = << "called" >> /\ framePending
    /\ Has(displayed, "p1") /\ Has(Status.projects, "p1")
    /\ RenderOf("p1", now).weekTime > displayed["p1"].weekTime

\* C22: once cleanup has run, the application stays stopped, the 5 s interval
\* starts no fetch, the 10 s interval opens no dialog and no frame writes the
\* display, also when the frame that was pending had not its handle in rafId.
C22_NothingAfterCleanup ==
    [][~isAppRunning
          => /\ ~isAppRunning'
             /\ ~FetchDataPolled
             /\ ~CheckIdle
             /\ ~RenderTimers
             /\ UNCHANGED << renderOutput, idleDialog >>]_vars

\* C22, witness: cleanup has run while the pending frame was one requested by
\* a skipped frame; that frame is still pending, in a second not yet written,
\* and the idle check would have opened a dialog.
C22_Witness ==
    /\ ~isAppRunning
    /\ framePending
    /\ HasStatus /\ ~throttled(now)
    /\ ~idleDialog.open /\ trackingProjectsOf(Status) # {} /\ idleThresholdReached(Status)

----------------------------------------------------------------------------
(* Properties of the projection *)

\* map.get(id): << the entry >> or <<>>.
get(m, id) == IF Has(m, id) THEN << m[id] >> ELSE <<>>

\* The four inputs of the projection of id: the project in the held Status,
\* its override, its freeze and the time.
projectionInputs(id) ==
    << Status.projects[id], get(localManualMode, id), get(frozenTimes, id), now >>

\* C23: the pair a render yields for a project is determined by the project in
\* the held Status, its override, its freeze and the time: a step that leaves
\* these four as they are leaves the pair as it is.
C23_ProjectionIsPure ==
    [][\A id \in StatusIds :
          (/\ currentStatus' # <<>>
           /\ Has(currentStatus'[1].projects, id)
           /\ projectionInputs(id)' = projectionInputs(id))
             => RenderOf(id, now)' = RenderOf(id, now)]_vars

\* C24: for a project with an active override, with the held Status, the
\* override and the freeze as they are, a render at a later time yields a week
\* time at least as large as a render at an earlier time.
C24_Monotone ==
    \A id \in StatusIds :
        isActive(localManualMode, id) =>
            \A t1, t2 \in Times :
                t2 > t1 => RenderOf(id, t2).weekTime >= RenderOf(id, t1).weekTime

\* C24, witness: p1 runs under an active override with no freeze, and time has
\* passed since the override started.
C24_Witness ==
    /\ HasStatus /\ Has(Status.projects, "p1")
    /\ isActive(localManualMode, "p1") /\ ~Has(frozenTimes, "p1")
    /\ now > localManualMode["p1"].startTime
    /\ RenderOf("p1", now).weekTime > RenderOf("p1", 0).weekTime

\* C25: for a project with an active override {startTime: T} and no freeze, a
\* render at t yields the week and today times of the held Status plus t - T,
\* whatever its elapsedTime; at t = T + 65000 that is 65000 ms, which
\* formatDuration prints as "1m 5s".
C25_OverrideProjection ==
    /\ formatDuration(65000) = << 1, "m", 5, "s" >>
    /\ \A id \in StatusIds :
          (isActive(localManualMode, id) /\ ~Has(frozenTimes, id)) =>
              LET p == Status.projects[id]
                  T == localManualMode[id].startTime
              IN  /\ \A t \in Times \cup {T + 65000} :
                        RenderOf(id, t) = [ weekTime  |-> p.weekTime + (t - T),
                                            todayTime |-> p.todayTime + (t - T) ]
                  /\ RenderOf(id, T + 65000).weekTime - p.weekTime = 65000

\* C25, witness: p1 runs under an active override with no freeze while the
\* held Status reports a positive elapsedTime for it.
C25_Witness ==
    /\ HasStatus /\ Has(Status.projects, "p1")
    /\ isActive(localManualMode, "p1") /\ ~Has(frozenTimes, "p1")
    /\ Status.projects["p1"].elapsedTime > 0
    /\ now > localManualMode["p1"].startTime

\* C26: for a project with no freeze and no active override, a render at t
\* adds elapsedTime + (t - lastFetchTime) to the week and today times of the
\* held Status when it shows the project tracking with elapsedTime > 0, and
\* adds 0 otherwise.
C26_BackendProjection ==
    \A id \in StatusIds :
        (~Has(frozenTimes, id) /\ ~isActive(localManualMode, id)) =>
            LET p == Status.projects[id]
            IN  \A t \in Times :
                    LET extra == IF p.isTracking /\ p.elapsedTime > 0
                                 THEN p.elapsedTime + (t - lastFetchTime)
                                 ELSE 0
                    IN  RenderOf(id, t) = [ weekTime  |-> p.weekTime + extra,
                                            todayTime |-> p.todayTime + extra ]

\* C26, witness: the held Status shows p1 tracking with a positive elapsedTime,
\* p1 has no override and no freeze, and time has passed since the fetch.
C26_Witness ==
    /\ HasStatus /\ Has(Status.projects, "p1")
    /\ ~Has(localManualMode, "p1") /\ ~Has(frozenTimes, "p1")
    /\ Status.projects["p1"].isTracking /\ Status.projects["p1"].elapsedTime > 0
    /\ now > lastFetchTime

----------------------------------------------------------------------------
(* Properties of the display across toggles *)

\* C27: while the backend applies every command and status fetches keep
\* completing, every freeze is eventually deleted together with its override.
C27_NoFreezeForEver ==
    \A id \in ProjectIds :
        Has(frozenTimes, id) ~> (~Has(frozenTimes, id) /\ ~Has(localManualMode, id))

\* C28: every render of a project whose override is active, that is, every
\* render after a start toggle and before the next stop, writes the week time
\* of the held Status plus the time since the start of the override.
C28_RunningAfterStart ==
    [][RenderTimers =>
          \A id \in StatusIds \cap DOMAIN cards :
              isActive(localManualMode, id) =>
                  displayed'[id].weekTime =
                      Status.projects[id].weekTime + (now - localManualMode[id].startTime)]_vars

\* C29: a click or a double-click on a project that the held Status shows in
\* manual mode issues a stop command for it, and one on a project the held
\* Status shows not in manual mode issues a start command.
C29_ToggleFollowsCard ==
    [][\A id \in StatusIds :
          (PlayClick(id) \/ DblClick(id))
             => \E c \in Issued :
                   /\ c.id = id
                   /\ c.op = IF Status.projects[id].manualMode THEN "stop" ELSE "start"]_vars

\* C30: when the user starts a project that the held Status shows tracking
\* with a positive elapsedTime and that has no override and no freeze, the next
\* render, at the time of the toggle or later in a second not yet written,
\* yields a week time not smaller than the one the last render wrote.
C30_StartNeverLowers ==
    [][\A id \in StatusIds \cap DOMAIN displayed :
          (/\ StartToggle(id)
           /\ ~Has(localManualMode, id) /\ ~Has(frozenTimes, id)
           /\ Status.projects[id].isTracking /\ Status.projects[id].elapsedTime > 0)
             => \A t \in Times :
                   (t >= now /\ ~throttled(t))
                      => RenderOf(id, t)'.weekTime >= displayed[id].weekTime]_vars

----------------------------------------------------------------------------
(* Properties of the project set and the view *)

\* C31: a fetchData whose Status has a set of project ids different from
\* knownProjectIds calls rebuildProjects and updates no card; one whose set is
\* the same starts nothing and leaves the set of cards as it is; and when
\* rebuildProjects completes, knownProjectIds is the set of ids of the held
\* Status, each with its card.
C31_RebuildOnSetChange ==
    [][\A r \in fetches :
          /\ FetchDataCompletes(r) =>
                IF DOMAIN r.status.projects # knownProjectIds
                THEN /\ [kind |-> "pollRebuild", status |-> fetchStatus(backend, now)] \in fetches'
                     /\ UNCHANGED << cards, lastProjectStates, knownProjectIds >>
                ELSE /\ fetches' = fetches \ {r}
                     /\ DOMAIN cards' = DOMAIN cards
                     /\ UNCHANGED knownProjectIds
          /\ (RebuildProjectsCompletes(r) /\ ~appError) =>
                /\ knownProjectIds' = DOMAIN currentStatus'[1].projects
                /\ DOMAIN cards' = knownProjectIds']_vars

\* C31, witness: fetchData has found a project set that differs from a known,
\* non-empty one, and the rebuild it called is in flight.
C31_Witness ==
    /\ knownProjectIds # {}
    /\ HasStatus /\ StatusIds # knownProjectIds
    /\ \E r \in fetches : r.kind = "pollRebuild"

\* C32: rebuildProjects leaves every existing override as it is, creates one
\* for each project its Status reports in manual mode that has none, and for no
\* other; the new override is {active: true, startTime: now - elapsedTime}, with
\* which a render at that instant adds the reported elapsedTime.
C32_SyncCreatesOnly ==
    [][\A r \in fetches : RebuildProjectsCompletes(r) =>
          /\ \A id \in DOMAIN localManualMode :
                Has(localManualMode', id) /\ localManualMode'[id] = localManualMode[id]
          /\ \A id \in (DOMAIN localManualMode') \ (DOMAIN localManualMode) :
                /\ Has(r.status.projects, id) /\ r.status.projects[id].manualMode
                /\ localManualMode'[id] =
                      [active |-> TRUE, startTime |-> now - r.status.projects[id].elapsedTime]
                /\ ~Has(frozenTimes', id) =>
                      RenderOf(id, now)' =
                          [ weekTime  |-> r.status.projects[id].weekTime
                                              + r.status.projects[id].elapsedTime,
                            todayTime |-> r.status.projects[id].todayTime
                                              + r.status.projects[id].elapsedTime ]
          /\ ~appError =>
                \A id \in DOMAIN r.status.projects :
                    r.status.projects[id].manualMode => Has(localManualMode', id)]_vars

\* C32, witness: rebuildProjects has created the override of p1 at this
\* instant, some time after the Status was taken.
C32_Witness ==
    /\ HasStatus /\ Has(Status.projects, "p1")
    /\ now > 0 /\ events = 0
    /\ Status.projects["p1"].elapsedTime > 0
    /\ isActive(localManualMode, "p1")
    /\ localManualMode["p1"].startTime = now - Status.projects["p1"].elapsedTime

\* C33: whenever a fetched Status is stored in currentStatus, by fetchData or
\* by rebuildProjects, lastFetchTime becomes the time of that step.
C33_FetchTimeOfHeldStatus ==
    [][\A r \in fetches :
          (FetchDataCompletes(r) \/ RebuildProjectsCompletes(r)) => lastFetchTime' = now]_vars

\* C34: a display update writes the frozen pair for a project that has a
\* freeze and leaves its entry in lastRenderedTimes as it is (present or not);
\* for a project with no freeze it stores the pair it computed and wrote as the
\* entry of the project in lastRenderedTimes.
C34_CacheUnlessFrozen ==
    [][RenderTimers =>
          \A id \in StatusIds :
              LET p == Status.projects[id]
                  extra == IF isActive(localManualMode, id)
                           THEN now - localManualMode[id].startTime
                           ELSE IF p.isTracking /\ p.elapsedTime > 0
                           THEN p.elapsedTime + (now - lastFetchTime)
                           ELSE 0
                  computed == [weekTime |-> p.weekTime + extra, todayTime |-> p.todayTime + extra]
              IN  IF Has(frozenTimes, id)
                  THEN /\ get(lastRenderedTimes', id) = get(lastRenderedTimes, id)
                       /\ Has(cards, id) =>
                             /\ displayed'[id] = frozenTimes[id]
                             /\ cards'[id].week = frozenTimes[id].weekTime
                             /\ cards'[id].today = frozenTimes[id].todayTime
                  ELSE /\ Has(lastRenderedTimes', id) /\ lastRenderedTimes'[id] = computed
                       /\ Has(cards, id) => displayed'[id] = computed]_vars

\* C34, witness: a display update has run while p1 was frozen under an override
\* that computes another pair; the display and the cache hold the frozen pair.
C34_Witness ==
    /\ HasStatus /\ Has(Status.projects, "p1") /\ Has(frozenTimes, "p1")
    /\ isActive(localManualMode, "p1")
    /\ lastRenderSecond * 1000 > localManualMode["p1"].startTime
    /\ Has(displayed, "p1") /\ displayed["p1"] = frozenTimes["p1"]
    /\ Has(lastRenderedTimes, "p1") /\ lastRenderedTimes["p1"] = frozenTimes["p1"]
    /\ renderedTimesIgnoringFreeze(Status.projects["p1"], localManualMode, frozenTimes, "p1",
                                   lastRenderSecond * 1000, lastFetchTime) # frozenTimes["p1"]

\* C35: every week and today time written to a card is non-negative and is
\* the pair projected at that instant; and through every step that is neither a
\* fetch completing nor a toggle, the pair projected for a project that the
\* held Status shows tracking does not decrease.
C35_NonNegativeNonDecreasing ==
    [][/\ \A id \in DOMAIN displayed' :
             displayed'[id].weekTime >= 0 /\ displayed'[id].todayTime >= 0
       /\ RenderTimers =>
             \A id \in StatusIds \cap DOMAIN cards : displayed'[id] = RenderOf(id, now)
       /\ (/\ HasStatus
           /\ ~\E r \in fetches : FetchDataCompletes(r) \/ RebuildProjectsCompletes(r)
           /\ ~\E id \in ProjectIds : PlayClick(id) \/ DblClick(id))
             => \A id \in StatusIds :
                   Status.projects[id].isTracking =>
                       /\ RenderOf(id, now)'.weekTime >= RenderOf(id, now).weekTime
                       /\ RenderOf(id, now)'.todayTime >= RenderOf(id, now).todayTime]_vars

\* C35, witness: p1 has been tracking since the load with no toggle, it was
\* rendered in the first second, and the render now due writes a larger pair.
C35_Witness ==
    /\ HasStatus /\ Has(Status.projects, "p1") /\ Status.projects["p1"].isTracking
    /\ events = 0 /\ lastRenderSecond = 0 /\ now = 1000
    /\ Has(displayed, "p1") /\ displayed["p1"].todayTime >= 0
    /\ RenderOf("p1", now).weekTime > displayed["p1"].weekTime

\* C36: Continue removes its dialog and clears idleDialogOpen, issues no
\* command and no fetch, and leaves the overrides, the freezes, the held Status
\* and the backend as they are; checkIdle then no longer returns early.
C36_ContinueOnlyCloses ==
    [][\A i \in DOMAIN idleDialog.dialogs :
          IdleContinue(i) =>
             /\ UNCHANGED << commands, fetches, promiseAll, backend, localManualMode,
                             frozenTimes, lastRenderedTimes, currentStatus, cards >>
             /\ ~idleDialog'.open
             /\ Len(idleDialog'.dialogs) = Len(idleDialog.dialogs) - 1
             /\ ~checkIdleReturns'
             /\ (trackingProjectsOf(Status) # {} /\ idleThresholdReached(Status))
                   => (checkIdleIntervalId' # <<>> /\ trackingProjectsOf(currentStatus'[1]) # {}
                       /\ idleThresholdReached(currentStatus'[1]))]_vars

\* C36, witness: the only event so far was Continue on the dialog; nothing was
\* issued or changed, no dialog is left and the trigger condition still holds.
C36_Witness ==
    /\ events = 1 /\ backend.version = 0
    /\ commands = {} /\ fetches = {} /\ promiseAll = EmptyMap
    /\ \A id \in DOMAIN localManualMode :
          localManualMode[id].active /\ localManualMode[id].startTime < 0
    /\ ~idleDialog.open /\ idleDialog.dialogs = <<>>
    /\ HasStatus /\ trackingProjectsOf(Status) # {} /\ idleThresholdReached(Status)

\* C37: a display update that has a header writes, as the header's week and
\* today totals, the sums over the projects of the held Status of the values it
\* writes to their cards in the same update; a frozen project counts with its
\* frozen pair.  Every project of the held Status therefore has a card that the
\* update writes.
C37_HeaderIsSum ==
    [][(RenderTimers /\ ~appError) =>
          /\ StatusIds \subseteq DOMAIN cards
          /\ \A id \in StatusIds :
                /\ displayed'[id] = RenderOf(id, now)
                /\ cards'[id].week = displayed'[id].weekTime
                /\ Has(frozenTimes, id) => displayed'[id] = frozenTimes[id]
          /\ header'.week =
                (IF "p1" \in StatusIds THEN displayed'["p1"].weekTime ELSE 0)
                + (IF "p2" \in StatusIds THEN displayed'["p2"].weekTime ELSE 0)
          /\ header'.today =
                (IF "p1" \in StatusIds THEN displayed'["p1"].todayTime ELSE 0)
                + (IF "p2" \in StatusIds THEN displayed'["p2"].todayTime ELSE 0)]_vars

\* C38: when rebuildProjects has rebuilt the view, localManualMode, frozenTimes
\* and lastRenderedTimes hold entries only for the ids of knownProjectIds; no
\* entry of a removed project is left.
C38_OnlyKnownIds ==
    [][\A r \in fetches :
          (RebuildProjectsCompletes(r) /\ ~appError) =>
             (DOMAIN localManualMode' \cup DOMAIN frozenTimes' \cup DOMAIN lastRenderedTimes')
                \subseteq knownProjectIds']_vars

\* C39: whenever lastProjectStates holds the key of a project that has a card,
\* the card shows the tracking class, the status icons and the play button of
\* exactly that key; so does a card that rebuildProjects has just recreated.
C39_KeyMatchesCard ==
    \A id \in DOMAIN lastProjectStates \cap DOMAIN cards :
        LET key == lastProjectStates[id]
        IN  /\ cards[id].tracking = key[1]
            /\ cards[id].btnStop = key[2]
            /\ cards[id].icons =
                  (IF key[3] = "active" THEN {"claude-active"} ELSE {})
                  \cup (IF key[1] /\ key[2] THEN {"manual-mode"} ELSE {})

====
